---- MODULE Spec2Model ----
(***************************************************************************)
(* Change-set reconciliation and chunked summarization pipeline of the     *)
(* release-notes generator (from_prs_release_notes.py and its variants).   *)
(*                                                                         *)
(* Texts are TLA+ strings, lists are sequences.  An exception that leaves  *)
(* a function is the program position "raised" with the exception's name   *)
(* in err; a returned value is the one-element sequence ret.               *)
(***************************************************************************)
EXTENDS Integers, Sequences, FiniteSets, TLC

VARIABLES
    pc,              \* position of the running program
    pr_list,         \* __main__: merged change-requests, as fetched
    commit_objs,     \* __main__: commits, as fetched
    orphan_commits,  \* __main__: result of filter_orphan_commits
    items,           \* items_for_llm / the items argument of summarize_in_chunks
    chunk_size,      \* the chunk_size argument of summarize_in_chunks
    ci,              \* number of chunks the for loop has consumed from chunk_list
    summaries,       \* summarize_in_chunks: the local list summaries
    ret,             \* <<>> or <<value returned to the caller>>
    err,             \* "" or the name of the exception that propagated
    calls,           \* log: every invocation of get_release_notes, in order
    requests,        \* log: every request sent to the LLM backend, in order
    release_notes,   \* __main__: <<>> or <<text written to the output file>>
    arg,             \* a pure function's arguments (pure-function specification)
    out,             \* a pure function's result    (pure-function specification)
    repos,           \* multi-repository batch: what the fetches of each repo return
    ri,              \* multi-repository batch: number of the repo being processed
    all_filenames    \* multi-repository batch: the files written so far

vars == <<pc, pr_list, commit_objs, orphan_commits, items, chunk_size, ci,
          summaries, ret, err, calls, requests, release_notes, arg, out,
          repos, ri, all_filenames>>

-----------------------------------------------------------------------------
(* Bounds of the model *)

MaxItems == 4        \* longest item list handed to a function directly
MaxChunkSize == 3    \* largest chunk_size handed to a function directly
MaxChars == 20       \* largest max_chars handed to need_chunking directly
MaxCommits == 2      \* longest commit list
MaxPRLen == 2        \* longest change-request list handed to filter_orphan_commits
MaxPRs == 41         \* most change-requests fetched by __main__
MaxRepos == 2        \* most repositories of one batch
ExampleLen == 100    \* length of the one long item list handed to summarize_in_chunks

(* Program constants *)

DefaultChunkSize == 30
DefaultMaxItems == 40
DefaultMaxChars == 10000

-----------------------------------------------------------------------------
(* Python list and string primitives *)

Min(a, b) == IF a < b THEN a ELSE b

\* Mutant of Slice: the upper index taken as inclusive
Slice_Inclusive(lst, a, b) == SubSeq(lst, a + 1, Min(b + 1, Len(lst)))

\* lst[a:b] for 0 <= a and 0 <= b
Slice(lst, a, b) == SubSeq(lst, a + 1, Min(b, Len(lst)))

\* list(range(start, stop, step)) for step # 0
RECURSIVE Range(_, _, _)
Range(start, stop, step) ==
    IF (step > 0 /\ start < stop) \/ (step < 0 /\ start > stop)
    THEN <<start>> \o Range(start + step, stop, step)
    ELSE <<>>

IsSpace(c) == c \in {" ", "\n", "\t"}

\* s.strip()
RECURSIVE Strip(_)
Strip(s) ==
    IF Len(s) = 0 THEN s
    ELSE IF IsSpace(SubSeq(s, 1, 1)) THEN Strip(SubSeq(s, 2, Len(s)))
    ELSE IF IsSpace(SubSeq(s, Len(s), Len(s))) THEN Strip(SubSeq(s, 1, Len(s) - 1))
    ELSE s

\* s.split("\n")[0]
RECURSIVE FirstLine(_)
FirstLine(s) ==
    IF Len(s) = 0 \/ SubSeq(s, 1, 1) = "\n" THEN ""
    ELSE SubSeq(s, 1, 1) \o FirstLine(SubSeq(s, 2, Len(s)))

\* sep.join(parts)
RECURSIVE Join(_, _)
Join(sep, parts) ==
    IF Len(parts) = 0 THEN ""
    ELSE IF Len(parts) = 1 THEN parts[1]
    ELSE parts[1] \o sep \o Join(sep, Tail(parts))

\* sum(len(m) for m in items)
RECURSIVE TotalChars(_)
TotalChars(its) ==
    IF its = <<>> THEN 0 ELSE Len(Head(its)) + TotalChars(Tail(its))

-----------------------------------------------------------------------------
(* Deduplicator and item normalizer *)

\* Mutant of pr_commit_shas: the set is assigned, not updated, in the loop
pr_commit_shas_LastOnly(prs) ==
    IF prs = <<>> THEN {} ELSE prs[Len(prs)].commit_shas

\* the loop "for pr in pr_list: pr_commit_shas.update(pr["commit_shas"])"
RECURSIVE pr_commit_shas(_)
pr_commit_shas(prs) ==
    IF prs = <<>> THEN {}
    ELSE Head(prs).commit_shas \cup pr_commit_shas(Tail(prs))

\* [c for c in commit_objs if c.sha not in pr_commit_shas]
filter_orphan_commits(cs, prs) ==
    SelectSeq(cs, LAMBDA c : c.sha \notin pr_commit_shas(prs))

\* the line of one change-request (the em dash is written "-")
PRLine(pr) ==
    "PR: " \o (IF pr.body # "" THEN pr.title \o " - " \o pr.body ELSE pr.title)

\* the line of one commit
CommitLine(c) == "Commit: " \o Strip(FirstLine(c.message))

prep_llm_input(prs, orphans) ==
    [k \in 1..Len(prs) |-> PRLine(prs[k])]
        \o [k \in 1..Len(orphans) |-> CommitLine(orphans[k])]

-----------------------------------------------------------------------------
(* Summarizer adapter *)

Sentinel == "No changes found in the selected period."

PromptPreamble ==
    "You are a professional technical writer. Given these PRs and commits, generate a concise, categorized release note in Markdown for end-users. "
    \o "Group under Features, Fixes, Improvements and General Updates. Prefer the PR description if available. Omit trivial/internal changes.\n\n"
    \o "Changes:\n"

\* the prompt built from a non-empty item list
Prompt(its) ==
    PromptPreamble \o Join("\n", [k \in 1..Len(its) |-> "- " \o its[k]])

\* What the LLM backend can do with one request: answer with some content,
\* or fail (network, quota, malformed response), which raises.
RawContents == {"## Features\n- x\n", "  ## Fixes\n- y"}
Outcomes ==
    {[ok |-> TRUE, content |-> c] : c \in RawContents}
        \cup {[ok |-> FALSE, content |-> ""]}

\* Mutant of get_release_notes: the guard "if not items" is missing
get_release_notes_NoGuard(its, o) ==
    [raised |-> ~o.ok,
     value  |-> IF o.ok THEN Strip(o.content) ELSE "",
     sent   |-> <<[items |-> its, prompt |-> Prompt(its)]>>]

\* Mutant of get_release_notes: the sentinel of the commit-only variant
get_release_notes_CommitSentinel(its, o) ==
    IF its = <<>>
    THEN [raised |-> FALSE,
          value |-> "No commits found in the selected period.",
          sent |-> <<>>]
    ELSE [raised |-> ~o.ok,
          value  |-> IF o.ok THEN Strip(o.content) ELSE "",
          sent   |-> <<[items |-> its, prompt |-> Prompt(its)]>>]

\* get_release_notes(items) when the backend's outcome for a request is o:
\* raised/value are how the call ends, sent the requests it issued.
get_release_notes(its, o) ==
    IF its = <<>>
    THEN [raised |-> FALSE, value |-> Sentinel, sent |-> <<>>]
    ELSE [raised |-> ~o.ok,
          value  |-> IF o.ok THEN Strip(o.content) ELSE "",
          sent   |-> <<[items |-> its, prompt |-> Prompt(its)]>>]

\* the entry of the log calls for one invocation
CallEntry(a, r) == [arg |-> a, raised |-> r.raised, value |-> r.value]

-----------------------------------------------------------------------------
(* Chunk planner *)

\* Mutant of chunk_list: every chunk is sliced from the start of the list
chunk_list_Cumulative(lst, size) ==
    LET starts == Range(0, Len(lst), size)
    IN  [k \in 1..Len(starts) |-> Slice(lst, 0, starts[k] + size)]

chunk_list(lst, size) ==
    LET starts == Range(0, Len(lst), size)
    IN  [k \in 1..Len(starts) |-> Slice(lst, starts[k], starts[k] + size)]

\* Mutant of need_chunking: the thresholds compared with >=
need_chunking_AtThreshold(its, max_items, max_chars) ==
    IF Len(its) >= max_items THEN TRUE
    ELSE IF TotalChars(its) >= max_chars THEN TRUE
    ELSE FALSE

need_chunking(its, max_items, max_chars) ==
    IF Len(its) > max_items THEN TRUE
    ELSE IF TotalChars(its) > max_chars THEN TRUE
    ELSE FALSE

-----------------------------------------------------------------------------
(* Hierarchical aggregator: summarize_in_chunks *)

MetaPreamble ==
    "Here are several summaries of code changes for a release. "
    \o "Write a single, clear, categorized release note in Markdown for end-users, grouping by Features, Fixes, Improvements, General Updates.\n\n"

\* Mutant of BatchEntry: the label is the 0-based index
BatchEntry_ZeroBased(k, summary) ==
    "Batch " \o ToString(k - 1) \o ":\n" \o summary

\* f"Batch {i+1}:\n{summary}" for the 1-based position k = i+1
BatchEntry(k, summary) == "Batch " \o ToString(k) \o ":\n" \o summary

final_prompt(sums) ==
    MetaPreamble
        \o Join("\n\n", [k \in 1..Len(sums) |-> BatchEntry(k, sums[k])])

\* summaries = []; the for loop asks chunk_list for its first chunk, which
\* evaluates range(0, len(lst), chunk_size): ValueError when chunk_size is 0.
SIC_Begin ==
    /\ pc = "summarize_in_chunks"
    /\ summaries' = <<>>
    /\ ci' = 0
    /\ IF chunk_size = 0
       THEN pc' = "raised" /\ err' = "ValueError"
       ELSE pc' = "for_chunk" /\ err' = err
    /\ UNCHANGED <<pr_list, commit_objs, orphan_commits, items, chunk_size,
                   ret, calls, requests, release_notes, arg, out,
                   repos, ri, all_filenames>>

\* Mutant of SIC_ForChunk: a failed call is caught and the loop goes on with
\* an empty summary
SIC_ForChunk_Swallow ==
    /\ pc = "for_chunk"
    /\ ci < Len(chunk_list(items, chunk_size))
    /\ \E o \in Outcomes :
         LET chunk == chunk_list(items, chunk_size)[ci + 1]
             r == get_release_notes(chunk, o)
         IN  /\ calls' = Append(calls, CallEntry(chunk, r))
             /\ requests' = requests \o r.sent
             /\ summaries' = Append(summaries, r.value)
             /\ ci' = ci + 1
             /\ UNCHANGED <<pc, err>>
    /\ UNCHANGED <<pr_list, commit_objs, orphan_commits, items, chunk_size,
                   ret, release_notes, arg, out,
                   repos, ri, all_filenames>>

\* one iteration: summary = get_release_notes_func(chunk); summaries.append(summary)
SIC_ForChunk ==
    /\ pc = "for_chunk"
    /\ ci < Len(chunk_list(items, chunk_size))
    /\ \E o \in Outcomes :
         LET chunk == chunk_list(items, chunk_size)[ci + 1]
             r == get_release_notes(chunk, o)
         IN  /\ calls' = Append(calls, CallEntry(chunk, r))
             /\ requests' = requests \o r.sent
             /\ IF r.raised
                THEN /\ pc' = "raised"
                     /\ err' = "LLMError"
                     /\ UNCHANGED <<summaries, ci>>
                ELSE /\ summaries' = Append(summaries, r.value)
                     /\ ci' = ci + 1
                     /\ UNCHANGED <<pc, err>>
    /\ UNCHANGED <<pr_list, commit_objs, orphan_commits, items, chunk_size,
                   ret, release_notes, arg, out,
                   repos, ri, all_filenames>>

\* Mutant of SIC_ReturnSingle: the test len(summaries) == 1 is missing, a
\* single summary goes through the meta-call as well
SIC_ReturnSingle_ViaMeta ==
    /\ pc = "for_chunk"
    /\ ci = Len(chunk_list(items, chunk_size))
    /\ Len(summaries) = 1
    /\ \E o \in Outcomes :
         LET a == <<final_prompt(summaries)>>
             r == get_release_notes(a, o)
         IN  /\ calls' = Append(calls, CallEntry(a, r))
             /\ requests' = requests \o r.sent
             /\ IF r.raised
                THEN pc' = "raised" /\ err' = "LLMError" /\ ret' = ret
                ELSE pc' = "returned" /\ err' = err /\ ret' = <<r.value>>
    /\ UNCHANGED <<pr_list, commit_objs, orphan_commits, items, chunk_size, ci,
                   summaries, release_notes, arg, out,
                   repos, ri, all_filenames>>

\* the loop is over and len(summaries) == 1: return summaries[0]
SIC_ReturnSingle ==
    /\ pc = "for_chunk"
    /\ ci = Len(chunk_list(items, chunk_size))
    /\ Len(summaries) = 1
    /\ ret' = <<summaries[1]>>
    /\ pc' = "returned"
    /\ UNCHANGED <<pr_list, commit_objs, orphan_commits, items, chunk_size, ci,
                   summaries, err, calls, requests, release_notes, arg, out,
                   repos, ri, all_filenames>>

\* the loop is over and len(summaries) != 1:
\* return get_release_notes_func([final_prompt])
SIC_Meta ==
    /\ pc = "for_chunk"
    /\ ci = Len(chunk_list(items, chunk_size))
    /\ Len(summaries) # 1
    /\ \E o \in Outcomes :
         LET a == <<final_prompt(summaries)>>
             r == get_release_notes(a, o)
         IN  /\ calls' = Append(calls, CallEntry(a, r))
             /\ requests' = requests \o r.sent
             /\ IF r.raised
                THEN pc' = "raised" /\ err' = "LLMError" /\ ret' = ret
                ELSE pc' = "returned" /\ err' = err /\ ret' = <<r.value>>
    /\ UNCHANGED <<pr_list, commit_objs, orphan_commits, items, chunk_size, ci,
                   summaries, release_notes, arg, out,
                   repos, ri, all_filenames>>

summarize_in_chunks == SIC_Begin \/ SIC_ForChunk \/ SIC_ReturnSingle \/ SIC_Meta

-----------------------------------------------------------------------------
(* Specification Spec: summarize_in_chunks called with any item list and    *)
(* any chunk_size, get_release_notes being the summarize function.          *)

ItemTexts == {"PR: a", "Commit: bc"}
ItemLists == UNION {[1..n -> ItemTexts] : n \in 0..MaxItems}
ChunkSizes == {-1} \cup 0..MaxChunkSize

\* one long list of distinct items, summarized with the default chunk_size
ExampleItems == [k \in 1..ExampleLen |-> "PR: t" \o ToString(k)]

Init ==
    /\ pc = "summarize_in_chunks"
    /\ \/ items \in ItemLists /\ chunk_size \in ChunkSizes
       \/ items = ExampleItems /\ chunk_size = DefaultChunkSize
    /\ pr_list = <<>> /\ commit_objs = <<>> /\ orphan_commits = <<>>
    /\ ci = 0 /\ summaries = <<>>
    /\ ret = <<>> /\ err = ""
    /\ calls = <<>> /\ requests = <<>>
    /\ release_notes = <<>>
    /\ arg = <<>> /\ out = <<>>
    /\ repos = <<>> /\ ri = 0 /\ all_filenames = <<>>

Next == summarize_in_chunks

Spec == Init /\ [][Next]_vars

-----------------------------------------------------------------------------
(* Specification SpecPure: the pure functions applied to bounded inputs.    *)

Shas == {"c1", "c2", "c3"}

\* a commit as fetched: its content hash and its full message
CommitObj(sha) ==
    [sha |-> sha,
     message |-> IF sha = "c1" THEN "fix a\n\nlong text"
                 ELSE IF sha = "c2" THEN " add b \nmore"
                 ELSE "c"]

CommitLists == UNION {[1..n -> {CommitObj(h) : h \in Shas}] : n \in 0..MaxCommits}

\* a change-request as fetched (author and merged_at are not read by the core)
PRObj(number, title, body, shas) ==
    [number |-> number, title |-> title, body |-> body, commit_shas |-> shas]

SmallPRs == {PRObj(1, "t", "", shas) : shas \in SUBSET Shas}
SmallPRLists == UNION {[1..n -> SmallPRs] : n \in 0..MaxPRLen}

InitPure ==
    /\ pc = "pure"
    /\ \/ arg \in [fn : {"chunk_list"}, lst : ItemLists, size : 1..MaxChunkSize]
       \/ arg \in [fn : {"filter_orphan_commits"}, commit_objs : CommitLists,
                   pr_list : SmallPRLists]
       \/ arg \in [fn : {"need_chunking"}, items : ItemLists,
                   max_items : 0..MaxItems, max_chars : 0..MaxChars]
    /\ out = <<>>
    /\ repos = <<>> /\ ri = 0 /\ all_filenames = <<>>
    /\ items = <<>> /\ chunk_size = DefaultChunkSize
    /\ pr_list = <<>> /\ commit_objs = <<>> /\ orphan_commits = <<>>
    /\ ci = 0 /\ summaries = <<>>
    /\ ret = <<>> /\ err = ""
    /\ calls = <<>> /\ requests = <<>>
    /\ release_notes = <<>>

PureFrame ==
    UNCHANGED <<pr_list, commit_objs, orphan_commits, items, chunk_size, ci,
                summaries, ret, err, calls, requests, release_notes, arg,
                repos, ri, all_filenames>>

\* list(chunk_list(lst, chunk_size))
Apply_chunk_list ==
    /\ pc = "pure" /\ arg.fn = "chunk_list"
    /\ out' = <<chunk_list(arg.lst, arg.size)>>
    /\ pc' = "done"
    /\ PureFrame

Apply_filter_orphan_commits ==
    /\ pc = "pure" /\ arg.fn = "filter_orphan_commits"
    /\ out' = <<filter_orphan_commits(arg.commit_objs, arg.pr_list)>>
    /\ pc' = "done"
    /\ PureFrame

Apply_need_chunking ==
    /\ pc = "pure" /\ arg.fn = "need_chunking"
    /\ out' = <<need_chunking(arg.items, arg.max_items, arg.max_chars)>>
    /\ pc' = "done"
    /\ PureFrame

NextPure == Apply_chunk_list \/ Apply_filter_orphan_commits \/ Apply_need_chunking

SpecPure == InitPure /\ [][NextPure]_vars

-----------------------------------------------------------------------------
(* Specification SpecMain: one run of __main__ of from_prs_release_notes.py *)
(* from the fetched change-requests and commits to the written text.        *)

\* the k-th fetched change-request: the first two subsume commits, and commit
\* c1 is in both their sets
FetchedPR(k) ==
    PRObj(k, "t" \o ToString(k),
          IF k % 2 = 0 THEN "d" ELSE "",
          IF k = 1 THEN {"c1"} ELSE IF k = 2 THEN {"c1", "c2"} ELSE {})

FetchedPRs(n) == [k \in 1..n |-> FetchedPR(k)]

Twice(s) == s \o s

\* a title of 16384 characters, longer than DefaultMaxChars
LongTitle ==
    Twice(Twice(Twice(Twice(Twice(Twice(Twice(
    Twice(Twice(Twice(Twice(Twice(Twice(Twice("x"))))))))))))))

InitMain ==
    /\ pc = "main"
    /\ pr_list \in {FetchedPRs(n) : n \in 0..MaxPRs}
                       \cup {<<PRObj(1, LongTitle, "", {"c3"})>>}
    /\ commit_objs \in CommitLists
    /\ orphan_commits = <<>>
    /\ items = <<>> /\ chunk_size = DefaultChunkSize
    /\ ci = 0 /\ summaries = <<>>
    /\ ret = <<>> /\ err = ""
    /\ calls = <<>> /\ requests = <<>>
    /\ release_notes = <<>>
    /\ arg = <<>> /\ out = <<>>
    /\ repos = <<>> /\ ri = 0 /\ all_filenames = <<>>

\* orphan_commits = filter_orphan_commits(commit_objs, pr_list)
Main_Filter ==
    /\ pc = "main"
    /\ orphan_commits' = filter_orphan_commits(commit_objs, pr_list)
    /\ pc' = "main_prep"
    /\ UNCHANGED <<pr_list, commit_objs, items, chunk_size, ci, summaries, ret,
                   err, calls, requests, release_notes, arg, out,
                   repos, ri, all_filenames>>

\* items_for_llm = prep_llm_input(pr_list, orphan_commits)
Main_Prep ==
    /\ pc = "main_prep"
    /\ items' = prep_llm_input(pr_list, orphan_commits)
    /\ pc' = "main_summarize"
    /\ UNCHANGED <<pr_list, commit_objs, orphan_commits, chunk_size, ci,
                   summaries, ret, err, calls, requests, release_notes, arg, out,
                   repos, ri, all_filenames>>

\* if need_chunking(items_for_llm): summarize_in_chunks(items_for_llm, get_release_notes)
Main_Chunked ==
    /\ pc = "main_summarize"
    /\ need_chunking(items, DefaultMaxItems, DefaultMaxChars)
    /\ chunk_size' = DefaultChunkSize
    /\ pc' = "summarize_in_chunks"
    /\ UNCHANGED <<pr_list, commit_objs, orphan_commits, items, ci, summaries,
                   ret, err, calls, requests, release_notes, arg, out,
                   repos, ri, all_filenames>>

\* else: release_notes = get_release_notes(items_for_llm)
Main_Direct ==
    /\ pc = "main_summarize"
    /\ ~need_chunking(items, DefaultMaxItems, DefaultMaxChars)
    /\ \E o \in Outcomes :
         LET r == get_release_notes(items, o)
         IN  /\ calls' = Append(calls, CallEntry(items, r))
             /\ requests' = requests \o r.sent
             /\ IF r.raised
                THEN pc' = "raised" /\ err' = "LLMError" /\ ret' = ret
                ELSE pc' = "returned" /\ err' = err /\ ret' = <<r.value>>
    /\ UNCHANGED <<pr_list, commit_objs, orphan_commits, items, chunk_size, ci,
                   summaries, release_notes, arg, out,
                   repos, ri, all_filenames>>

\* print(release_notes); f.write(release_notes)
Main_Write ==
    /\ pc = "returned"
    /\ release_notes' = ret
    /\ pc' = "written"
    /\ UNCHANGED <<pr_list, commit_objs, orphan_commits, items, chunk_size, ci,
                   summaries, ret, err, calls, requests, arg, out,
                   repos, ri, all_filenames>>

NextMain ==
    \/ Main_Filter \/ Main_Prep \/ Main_Chunked \/ Main_Direct \/ Main_Write
    \/ summarize_in_chunks

SpecMain == InitMain /\ [][NextMain]_vars

-----------------------------------------------------------------------------
(* Properties of summarize_in_chunks, checked under Spec                    *)

\* ceil(len(items) / chunk_size), the number of chunks for chunk_size >= 1
NumChunks == (Len(items) + chunk_size - 1) \div chunk_size

\* the text p stands in text at position pos
HasAt(text, pos, p) ==
    /\ pos + Len(p) - 1 <= Len(text)
    /\ SubSeq(text, pos, pos + Len(p) - 1) = p

\* from position pos to its end, text is the entries "Batch k:\n" sums[k],
\* "Batch k+1:\n" sums[k+1], ... up to the last of sums, two newlines between
RECURSIVE BatchesFrom(_, _, _, _)
BatchesFrom(text, pos, k, sums) ==
    LET label == "Batch " \o ToString(k) \o ":\n"
        after == pos + Len(label) + Len(sums[k])
    IN  /\ HasAt(text, pos, label)
        /\ HasAt(text, pos + Len(label), sums[k])
        /\ IF k = Len(sums)
           THEN after = Len(text) + 1
           ELSE HasAt(text, after, "\n\n")
                    /\ BatchesFrom(text, after + 2, k + 1, sums)

\* C1 (as claimed): for an empty item list and chunk_size >= 1 the call
\* returns the sentinel text and the summarize function is never invoked.
C1_EmptyReturnsSentinelWithoutCall ==
    (items = <<>> /\ chunk_size >= 1) =>
        /\ calls = <<>>
        /\ pc # "raised"
        /\ pc = "returned" => ret = <<"No changes found in the selected period.">>

\* C2: when the items split into N > 1 chunks and the call returns, the
\* summarize function was called N+1 times, the last call got a list of one
\* text that holds the N per-chunk summaries labelled Batch 1 .. Batch N in
\* chunk order, each once, and the value returned is that last call's result.
C2_MetaCallOverAllBatches ==
    (pc = "returned" /\ chunk_size >= 1 /\ NumChunks > 1) =>
        /\ Len(calls) = NumChunks + 1
        /\ Len(calls[NumChunks + 1].arg) = 1
        /\ HasAt(calls[NumChunks + 1].arg[1], 1, MetaPreamble)
        /\ BatchesFrom(calls[NumChunks + 1].arg[1], Len(MetaPreamble) + 1, 1,
                       [k \in 1..NumChunks |-> calls[k].value])
        /\ ret = <<calls[NumChunks + 1].value>>

\* 100 items with chunk_size 30: chunks of 30, 30, 30 and 10 items, 5 calls
C2_Witness ==
    /\ pc = "returned" /\ chunk_size = 30 /\ Len(items) = 100
    /\ Len(calls) = 5
    /\ <<Len(calls[1].arg), Len(calls[2].arg), Len(calls[3].arg),
         Len(calls[4].arg), Len(calls[5].arg)>> = <<30, 30, 30, 10, 1>>
    /\ calls[1].value # calls[2].value

\* C3 (as claimed): whenever len(items) <= chunk_size the summarize function
\* is called exactly once, with the full item list, and its result is
\* returned unmodified.
C3_AtMostChunkSizeOneCall ==
    (Len(items) <= chunk_size) =>
        /\ Len(calls) <= 1
        /\ \A k \in 1..Len(calls) : calls[k].arg = items
        /\ pc = "returned" => Len(calls) = 1 /\ ret = <<calls[1].value>>

\* C3 (amended): whenever 1 <= len(items) <= chunk_size the summarize
\* function is called exactly once, with the full item list, and its result
\* is returned unmodified.
C3_NonEmptyAtMostChunkSizeOneCall ==
    (1 <= Len(items) /\ Len(items) <= chunk_size) =>
        /\ Len(calls) <= 1
        /\ \A k \in 1..Len(calls) : calls[k].arg = items
        /\ pc = "returned" => Len(calls) = 1 /\ ret = <<calls[1].value>>

C3_Witness ==
    /\ pc = "returned" /\ Len(items) = 2 /\ chunk_size = 2
    /\ Len(calls) = 1

\* C4: a call of the summarize function that fails is the last call made,
\* the failure propagates out of summarize_in_chunks, and no text is
\* returned: neither a note from some chunks nor the joined summaries.
C4_FailureAbortsWithoutText ==
    /\ \A k \in 1..Len(calls) :
         calls[k].raised =>
            k = Len(calls) /\ pc = "raised" /\ err = "LLMError"
    /\ pc = "raised" => ret = <<>> /\ release_notes = <<>>

\* the meta-call fails after two per-chunk summaries were computed
C4_Witness ==
    /\ pc = "raised" /\ Len(summaries) = 2 /\ Len(calls) = 3
    /\ calls[3].raised /\ ~calls[1].raised /\ ~calls[2].raised

\* C8 (as claimed): a chunk_size <= 0 is rejected: the call does not return
\* normally and the summarize function is not called.
C8_NonPositiveChunkSizeRejected ==
    (chunk_size <= 0) => (calls = <<>> /\ pc # "returned")

-----------------------------------------------------------------------------
(* Properties of the pure functions, checked under SpecPure                 *)

Applied(fn) == pc = "done" /\ arg.fn = fn

\* the identifiers the change-requests of prs subsume
SubsumedShas(prs) == UNION {prs[k].commit_shas : k \in 1..Len(prs)}

\* the positions of cs whose commit no change-request of prs subsumes
KeptPositions(cs, prs) ==
    {j \in 1..Len(cs) : cs[j].sha \notin SubsumedShas(prs)}

\* the m-th smallest element of the set of positions K
NthOf(K, m) == CHOOSE j \in K : Cardinality({x \in K : x <= j}) = m

\* C5: filter_orphan_commits(C, P) is the subsequence of C, in the original
\* order, of exactly the commits whose identifier is in no change-request's
\* commit-identifier set.
C5_OrphansAreExactlyTheUnsubsumed ==
    Applied("filter_orphan_commits") =>
        LET K == KeptPositions(arg.commit_objs, arg.pr_list)
        IN  /\ Len(out[1]) = Cardinality(K)
            /\ \A m \in 1..Len(out[1]) :
                 out[1][m] = arg.commit_objs[NthOf(K, m)]
            /\ \A m \in 1..Len(out[1]) :
                 out[1][m].sha \notin SubsumedShas(arg.pr_list)
            /\ arg.pr_list = <<>> => out[1] = arg.commit_objs

\* one identifier is in two change-requests' sets; one commit is dropped and
\* a later one is kept
C5_Witness ==
    /\ Applied("filter_orphan_commits")
    /\ Len(arg.pr_list) = 2
    /\ arg.pr_list[1].commit_shas \cap arg.pr_list[2].commit_shas # {}
    /\ arg.pr_list[1].commit_shas # arg.pr_list[2].commit_shas
    /\ Len(arg.commit_objs) = 2
    /\ arg.commit_objs[1].sha \in SubsumedShas(arg.pr_list)
    /\ out[1] = <<arg.commit_objs[2]>>

\* the chunks of a sequence of chunks, one after the other
RECURSIVE Concat(_)
Concat(chunks) ==
    IF chunks = <<>> THEN <<>> ELSE Head(chunks) \o Concat(Tail(chunks))

\* C6: for chunk_size >= 1 the chunks of chunk_list(L, chunk_size), one
\* after the other, are L: nothing reordered, dropped or duplicated.
C6_ChunksConcatenateToList ==
    (Applied("chunk_list") /\ arg.size >= 1) =>
        /\ Concat(out[1]) = arg.lst
        /\ \A k \in 1..Len(out[1]) :
             out[1][k] = [j \in 1..Len(out[1][k]) |->
                             arg.lst[Len(Concat(SubSeq(out[1], 1, k - 1))) + j]]

\* a last chunk shorter than the others
C6_Witness ==
    /\ Applied("chunk_list")
    /\ Len(arg.lst) = 3 /\ arg.size = 2
    /\ arg.lst[1] # arg.lst[2]
    /\ Len(out[1]) = 2 /\ Len(out[1][2]) = 1

\* the number of characters of the texts its[1..n]
RECURSIVE CharsUpTo(_, _)
CharsUpTo(its, n) == IF n = 0 THEN 0 ELSE CharsUpTo(its, n - 1) + Len(its[n])

\* C7: need_chunking(items, max_items, max_chars) is true exactly when
\* len(items) > max_items or the items' lengths sum to more than max_chars.
C7_NeedChunkingIffOverAThreshold ==
    Applied("need_chunking") =>
        (out[1] = TRUE <=>
            \/ Len(arg.items) > arg.max_items
            \/ CharsUpTo(arg.items, Len(arg.items)) > arg.max_chars)

\* exactly max_items items of exactly max_chars characters in total
C7_Witness ==
    /\ Applied("need_chunking")
    /\ Len(arg.items) = arg.max_items /\ arg.max_items > 0
    /\ CharsUpTo(arg.items, Len(arg.items)) = arg.max_chars
    /\ out[1] = FALSE

-----------------------------------------------------------------------------
(* Properties of the run of __main__, checked under SpecMain                *)

C10_EmptyRunYieldsSentinel ==
    (items = <<>> /\ pc \notin {"main", "main_prep"}) =>
        /\ pc \in {"main_summarize", "returned", "written"}
        /\ requests = <<>> /\ err = ""
        /\ pc = "returned" => ret = <<"No changes found in the selected period.">>
        /\ pc = "written" =>
              release_notes = <<"No changes found in the selected period.">>

C10_Witness ==
    /\ pc = "written" /\ items = <<>> /\ Len(calls) = 1
    /\ release_notes = <<"No changes found in the selected period.">>

-----------------------------------------------------------------------------
(* Order of the calls of summarize_in_chunks, checked under Spec            *)

\* the items of the k-th chunk: positions (k-1)*chunk_size+1 .. k*chunk_size
ItemsOfChunk(k) ==
    [j \in 1..(Min(k * chunk_size, Len(items)) - (k - 1) * chunk_size) |->
        items[(k - 1) * chunk_size + j]]

\* the calls made so far are those of chunks 1, 2, ... in this order, each
\* with its own chunk's items, then the meta-call; every call before the
\* last has returned and its result is the summary at its position
CallsInChunkOrder ==
    (chunk_size >= 1) =>
        /\ Len(calls) <= NumChunks + 1
        /\ \A k \in 1..Len(calls) :
             /\ k <= NumChunks => calls[k].arg = ItemsOfChunk(k)
             /\ k < Len(calls) => ~calls[k].raised
             /\ (k <= NumChunks /\ ~calls[k].raised) =>
                   (k <= Len(summaries) /\ summaries[k] = calls[k].value)
             /\ (k = NumChunks + 1 /\ NumChunks >= 1) =>
                   (Len(summaries) = NumChunks /\ NumChunks > 1)

\* a step that makes a call makes one call, at the loop position, when all
\* earlier calls have returned and their summaries are collected
OneCallAfterThePrevious ==
    (calls' # calls) =>
        /\ pc = "for_chunk"
        /\ Len(calls') = Len(calls) + 1
        /\ SubSeq(calls', 1, Len(calls)) = calls
        /\ Len(summaries) = Len(calls)
        /\ \A k \in 1..Len(calls) : ~calls[k].raised

\* C12: the calls are issued one at a time in chunk order: the call for
\* chunk k+1 is made only after the call for chunk k has returned, the
\* meta-call only after every per-chunk call has returned, and the argument
\* of a per-chunk call is exactly that chunk's items.
C12_SequentialCallsInChunkOrder ==
    [](CallsInChunkOrder) /\ [][OneCallAfterThePrevious]_vars

\* three chunks of different items summarized in order, then the meta-call
C12_Witness ==
    /\ pc = "returned" /\ chunk_size = 1 /\ Len(items) = 3
    /\ items[1] # items[2]
    /\ Len(calls) = 4
    /\ calls[1].arg = <<items[1]>> /\ calls[2].arg = <<items[2]>>
    /\ calls[3].arg = <<items[3]>>

-----------------------------------------------------------------------------
(* Chunking decision against the split, checked under SpecMain              *)

\* C13 (as claimed): whenever need_chunking is true with the default
\* thresholds, the default chunk_size splits the items into at least two
\* chunks and no call receives the whole item list.
C13_ChunkingNeededMeansTwoChunks ==
    (pc \notin {"main", "main_prep"}
        /\ (Len(items) > 40 \/ CharsUpTo(items, Len(items)) > 10000)) =>
        /\ (Len(items) + 30 - 1) \div 30 >= 2
        /\ \A k \in 1..Len(calls) : calls[k].arg # items

-----------------------------------------------------------------------------
(* Specification SpecBatch: the loop "for repo in repos" of                 *)
(* multiple_repos_release_notes.py.  The body of the loop is the run of     *)
(* __main__ above, from the filter to the summarization; the locals of one  *)
(* iteration keep their values until the next iteration assigns them.       *)

\* what get_merged_prs and get_commits can return for one repository
FetchResults ==
    { [pr_list |-> <<>>, commit_objs |-> <<>>],
      [pr_list |-> FetchedPRs(2),
       commit_objs |-> <<CommitObj("c1"), CommitObj("c3")>>],
      [pr_list |-> <<PRObj(1, LongTitle, "", {"c3"})>>, commit_objs |-> <<>>],
      [pr_list |-> FetchedPRs(MaxPRs), commit_objs |-> <<>>] }

InitBatch ==
    /\ pc = "for_repo"
    /\ repos \in UNION {[1..n -> FetchResults] : n \in 0..MaxRepos}
    /\ ri = 0
    /\ all_filenames = <<>>
    /\ pr_list = <<>> /\ commit_objs = <<>> /\ orphan_commits = <<>>
    /\ items = <<>> /\ chunk_size = DefaultChunkSize
    /\ ci = 0 /\ summaries = <<>>
    /\ ret = <<>> /\ err = ""
    /\ calls = <<>> /\ requests = <<>>
    /\ release_notes = <<>>
    /\ arg = <<>> /\ out = <<>>

\* the next repo: pr_list = get_merged_prs(...); commit_objs = get_commits(...)
Batch_NextRepo ==
    /\ pc = "for_repo"
    /\ ri < Len(repos)
    /\ ri' = ri + 1
    /\ pr_list' = repos[ri + 1].pr_list
    /\ commit_objs' = repos[ri + 1].commit_objs
    /\ pc' = "main"
    /\ UNCHANGED <<orphan_commits, items, chunk_size, ci, summaries, ret, err,
                   calls, requests, release_notes, arg, out, repos,
                   all_filenames>>

\* f.write(release_notes); all_filenames.append(filename)
Batch_Write ==
    /\ pc = "returned"
    /\ release_notes' = ret
    /\ all_filenames' = Append(all_filenames, [repo |-> ri, text |-> ret[1]])
    /\ pc' = "for_repo"
    /\ UNCHANGED <<pr_list, commit_objs, orphan_commits, items, chunk_size, ci,
                   summaries, ret, err, calls, requests, arg, out, repos, ri>>

\* the loop is over: print("All release notes generated:") ...
Batch_Done ==
    /\ pc = "for_repo"
    /\ ri = Len(repos)
    /\ pc' = "batch_done"
    /\ UNCHANGED <<pr_list, commit_objs, orphan_commits, items, chunk_size, ci,
                   summaries, ret, err, calls, requests, release_notes, arg,
                   out, repos, ri, all_filenames>>

NextBatch ==
    \/ Batch_NextRepo \/ Batch_Write \/ Batch_Done
    \/ Main_Filter \/ Main_Prep \/ Main_Chunked \/ Main_Direct
    \/ summarize_in_chunks

SpecBatch == InitBatch /\ [][NextBatch]_vars

\* the files written for the r-th repository of the batch
FilesOf(r) == {k \in 1..Len(all_filenames) : all_filenames[k].repo = r}

\* C11 (as claimed): when the batch has ended, every repository of it has
\* either exactly one final text or the propagated error of its own run: a
\* summarization failure in one repository's run leaves the other
\* repositories' outcomes as they are.
C11_EachRepoEndsWithTextOrItsOwnError ==
    (pc \in {"batch_done", "raised"}) =>
        \A r \in 1..Len(repos) :
            \/ Cardinality(FilesOf(r)) = 1 /\ ~(pc = "raised" /\ ri = r)
            \/ Cardinality(FilesOf(r)) = 0 /\ pc = "raised" /\ ri = r

====
